---- MODULE Spec2Model ----
(***************************************************************************)
(* The MedPal document-extraction Lambda functions.                        *)
(*                                                                         *)
(* The repository ships several deployments of the same pipeline; a        *)
(* behaviour of this model is one invocation of lambda_handler of one of   *)
(* them:                                                                   *)
(*   "enhanced"   src/paddleocr-lite-analysis.md   (process_pdf_enhanced)  *)
(*   "fixed"      src/lambda-gcp-vision/setup-gcp-credentials.md           *)
(*                                           (process_pdf_enhanced_fixed)  *)
(*   "smart"      src/unnamed/part_016             (process_document_lite) *)
(*   "pdfplumber" src/unnamed/part_014      (process_pdf_with_pdfplumber)  *)
(*                                                                         *)
(* A behaviour of TextSpec is one call of one of the text functions the    *)
(* deployments share (cleaning, scoring, classification, keyword           *)
(* extraction) or of getChatSessions, on an argument drawn from a bounded  *)
(* set.                                                                    *)
(*                                                                         *)
(* The web application has three specifications of its own: ChatSpec, the  *)
(* ChatInterface component of src/unnamed/part_004 with the add-message    *)
(* route; DeleteSpec, deleteChatSession of src/medpal/src/lib/dynamodb.ts  *)
(* with addChatMessage calls running beside it; UploadSpec, the POST       *)
(* handler of src/medpal/src/app/api/upload-s3/route.ts, several requests  *)
(* at a time.                                                              *)
(*                                                                         *)
(* S3, DynamoDB, the local disk and the PDF libraries are the environment: *)
(* every call into them either succeeds or raises, chosen with \E.         *)
(* Scores are kept in hundredths (0.95 is 95).                             *)
(***************************************************************************)
EXTENDS Integers, Sequences, FiniteSets, TLC

\* ------------------------------------------------------------------ bounds
\* Longest list of trigger records in one event.
MaxRecords == 2
\* Most usable lines one extraction tier produces.
MaxLines == 2
\* Pages of the documents the engines open.
PageCount == 2
\* Recognition confidence, in hundredths, the OCR engines report for a line.
OcrConfidence == 90
\* Longest page text, in characters, handed to the cleaners.
MaxChars == 5
\* Most vocabulary terms, lines and complete sentences of a scored text.
MaxHits == 4
MaxLineCount == 21
MaxSentences == 4
\* Longest text, in pieces, handed to the classifiers and the keyword extractor.
MaxPieces == 4
\* Most items a Scan of the chat table returns.
MaxMessages == 3
\* Last reading of the clock at which the chat window still starts a send.
MaxClock == 4
\* Requests to /api/upload-s3 that may be under way together.
MaxUploads == 2

VARIABLES
    variant,    \* which deployment handles the event
    event,      \* the event handed to lambda_handler
    hpc,        \* position of the handler: "entry", "loop", "run", "returned"
    idx,        \* handle_s3_event: index of the next trigger record
    results,    \* handle_s3_event: the per-document summaries collected so far
    response,   \* what lambda_handler returned (NoResponse until it returns)
    escaped,    \* an exception left lambda_handler
    pc,         \* position of the current document run
    doc,        \* locals of the current document run
    tier,       \* extraction chain: the tier to invoke next
    tried,      \* extraction chain: the tiers invoked so far, with what each did
    phases,     \* pipeline states the current run has entered, in order
    table,      \* the DynamoDB table: documentId -> item
    writes,     \* every put_item attempted, in order
    disk,       \* temporary files present on the local disk
    nextId,     \* source of fresh uuid4 values and temporary file names
    ended,      \* the document runs that returned control to their caller
    fn,         \* the text function called on its own ("none" during an invocation)
    arg,        \* the argument that call was made with
    ret,        \* what the call returned (NoReturn until it returns)
    chatTable,  \* the chat table: the stored messages, one per (ChatSessionId, Timestamp)
    clock,      \* Date.now(), in ticks since the page was opened
    activeSessionId,   \* ChatInterface: the prop the sidebar sets
    currentSessionId,  \* ChatInterface: state, '' while no session is open
    messages,   \* ChatInterface: state, the list of messages shown
    fetching,   \* ChatInterface: sessions whose fetchMessages has not answered yet
    send,       \* ChatInterface: the handleSend in progress, with its closure
    del,        \* the deleteChatSession call in progress
    ocrTable,   \* the items of OCR-Text-Extraction-Table-Test
    uploads     \* the /api/upload-s3 requests, each with its position and locals

vars == <<variant, event, hpc, idx, results, response, escaped, pc, doc, tier,
          tried, phases, table, writes, disk, nextId, ended, fn, arg, ret,
          chatTable, clock, activeSessionId, currentSessionId, messages, fetching,
          send, del, ocrTable, uploads>>

hvars == <<hpc, idx, results, response, escaped>>
rvars == <<pc, doc, tier, tried, phases>>
svars == <<table, writes, disk, nextId, ended>>
fvars == <<fn, arg, ret>>
cvars == <<activeSessionId, currentSessionId, messages, fetching, send>>
wvars == <<chatTable, clock, cvars, del, ocrTable, uploads>>

\* The web application at rest: nothing stored, no request under way.
NoMessage == [ChatSessionId |-> "", Timestamp |-> 0, MessageId |-> 0, Sender |-> ""]

NoSend == [pc |-> "idle", closure |-> "", sessionId |-> "", userMessage |-> NoMessage,
           reply |-> NoMessage]

NoDelete == [pc |-> "idle", sessionId |-> "", began |-> {}, messages |-> {},
             pending |-> {}, success |-> FALSE]

IdleChat ==
    /\ activeSessionId = ""
    /\ currentSessionId = ""
    /\ messages = <<>>
    /\ fetching = {}
    /\ send = NoSend

IdleWeb ==
    /\ chatTable = {}
    /\ clock = 0
    /\ IdleChat
    /\ del = NoDelete
    /\ ocrTable = {}
    /\ uploads = <<>>

Variants == {"enhanced", "fixed", "smart", "pdfplumber"}

\* a call that has not returned
NoReturn == [done |-> FALSE, value |-> <<>>]

\* ------------------------------------------------------------ trigger keys
\* An object key is its folder and its extension; the handlers look at
\* nothing else (key.startswith(...), key.lower().endswith(...)).
Keys ==
    { [dir |-> "medpal-uploads/", ext |-> ".pdf"],
      [dir |-> "medpal-uploads/", ext |-> ".PDF"],
      [dir |-> "medpal-uploads/", ext |-> ".png"],
      [dir |-> "tmp/",            ext |-> ".pdf"] }

NoKey == [dir |-> "", ext |-> ""]

lower(ext) ==
    CASE ext = ".PDF" -> ".pdf"
      [] ext = ".PNG" -> ".png"
      [] OTHER -> ext

\* key.startswith('medpal-uploads/')
startswith_prefix(key) == key.dir = "medpal-uploads/"

\* handle_s3_event's filter, enhanced / fixed / pdfplumber deployments
is_pdf_key(key) == startswith_prefix(key) /\ lower(key.ext) = ".pdf"

\* handle_s3_event's filter, smart deployment
is_document_key(key) ==
    startswith_prefix(key) /\ lower(key.ext) \in {".pdf", ".png", ".jpg", ".jpeg"}

key_matches(v, key) ==
    IF v = "smart" THEN is_document_key(key) ELSE is_pdf_key(key)

\* ------------------------------------------------------------------ events
RECURSIVE SeqsUpTo(_, _)
SeqsUpTo(S, n) ==
    IF n = 0 THEN { <<>> }
    ELSE LET shorter == SeqsUpTo(S, n - 1)
         IN  shorter \cup { Append(s, x) : s \in { t \in shorter : Len(t) = n - 1 }, x \in S }

\* kind "s3":        {'Records': [...]}                       (an S3 notification)
\* kind "s3nested":  {'Records': [...], 's3': {'records': [...]}}
\* kind "direct":    {'key': ...} or {} (key absent: NoKey)
\* kind "malformed": not a mapping ('Records' in event raises)
Events ==
    { [kind |-> k, Records |-> r, key |-> NoKey] :
          k \in {"s3", "s3nested"}, r \in SeqsUpTo(Keys, MaxRecords) }
    \cup { [kind |-> "direct", Records |-> <<>>, key |-> k] : k \in Keys \cup {NoKey} }
    \cup { [kind |-> "malformed", Records |-> <<>>, key |-> NoKey] }

has_Records(ev) == ev.kind \in {"s3", "s3nested"}

\* --------------------------------------------------------------- responses
NoResponse == [statusCode |-> 0, success |-> FALSE, processed_files |-> -1, error |-> ""]

Response200(n) == [statusCode |-> 200, success |-> TRUE, processed_files |-> n, error |-> ""]

Response400 ==
    [statusCode |-> 400, success |-> FALSE, processed_files |-> -1, error |-> "bad request"]

Response500(e) == [statusCode |-> 500, success |-> FALSE, processed_files |-> -1, error |-> e]

\* ---------------------------------------------------------- extracted text
\* A text is the sequence of its lines.  The text a document with n usable
\* lines yields is the first n of these lines: distinct, longer than five
\* characters, alphabetic, without a sentence terminator or a domain keyword.
SampleLines ==
    <<"first sample line", "second sample line", "third sample line", "fourth sample line">>

TextOf(n) == [i \in 1..n |-> SampleLines[i]]

\* The text of a page that holds white space only.
BlankText == <<" ">>

\* [line.strip() for line in text.split('\n') if line.strip()]
stripped_lines(text) == SelectSeq(text, LAMBDA line : line # " ")

NoOutcome == [text |-> <<>>, confidence |-> -1, pages |-> 0, lines |-> -1, tier |-> 0]

NoDoc == [documentId |-> 0, key |-> NoKey, content_type |-> "", created |-> 0,
          temp_file_path |-> 0, outcome |-> NoOutcome, document_type |-> "",
          e |-> ""]

\* ------------------------------------------------------------ record store
\* table.put_item(Item=record): the item replaces whatever the key held.
put_item(t, record) ==
    [k \in DOMAIN t \cup {record.documentId} |->
        IF k = record.documentId THEN record ELSE t[k]]

WriteEntry(record, kind, ok) == [documentId |-> record.documentId, kind |-> kind, ok |-> ok]

\* save_to_dynamodb logs a failed put_item and re-raises it (enhanced, fixed,
\* smart); the pdfplumber deployment's logs it and returns normally.
save_reraises(v) == v # "pdfplumber"

\* the record of a run that leaves the document's type out
success_record_partial(d, engine) ==
    [documentId |-> d.documentId, s3Key |-> d.key,
     extractedText |-> d.outcome.text, confidence |-> d.outcome.confidence,
     totalLines |-> d.outcome.lines, totalPages |-> d.outcome.pages,
     processingEngine |-> engine]

success_record(d, engine) ==
    [documentId |-> d.documentId, s3Key |-> d.key,
     extractedText |-> d.outcome.text, documentType |-> d.document_type,
     confidence |-> d.outcome.confidence,
     totalLines |-> d.outcome.lines, totalPages |-> d.outcome.pages,
     processingEngine |-> engine]

error_record(d, engine) ==
    [documentId |-> d.documentId, s3Key |-> d.key,
     processingStatus |-> "failed", errorMessage |-> d.e,
     processingEngine |-> engine]

processingEngine(v) ==
    CASE v = "enhanced"   -> "enhanced-parser"
      [] v = "fixed"      -> "enhanced-parser-fixed"
      [] v = "smart"      -> "smart-ocr"
      [] v = "pdfplumber" -> "pdfplumber"

is_failed_record(r) == "processingStatus" \in DOMAIN r

\* ------------------------------------------------------------ handler
\* lambda_handler with an except clause that does not cover the exception:
\* the exception reaches the Lambda host
Catch_uncaught(e) ==
    /\ response' = NoResponse
    /\ escaped' = TRUE
    /\ hpc' = "returned"

\* except Exception as e: return {'statusCode': 500, ...}
Catch(e) ==
    /\ response' = Response500(e)
    /\ escaped' = FALSE
    /\ hpc' = "returned"

Summary(d, status) == [documentId |-> d.documentId, status |-> status, error |-> d.e]

EndedRun(d, status) ==
    [documentId |-> d.documentId, created |-> d.created, status |-> status, e |-> d.e]

\* document_id = str(uuid.uuid4()); the run starts with the metadata fetch
StartRun(key) ==
    /\ doc' = [NoDoc EXCEPT !.documentId = nextId, !.key = key]
    /\ nextId' = nextId + 1
    /\ pc' = "head"
    /\ tier' = 0
    /\ tried' = <<>>
    /\ phases' = <<"FETCHING">>
    /\ hpc' = "run"

lambda_handler ==
    /\ hpc = "entry"
    /\ variant # "pdfplumber"
    /\ UNCHANGED <<wvars, fvars, variant, event, rvars, svars, idx, results>>
    /\ \/ \* 'Records' in event raises on an event that is no mapping
          /\ event.kind = "malformed"
          /\ Catch("TypeError")
       \/ /\ has_Records(event)
          /\ hpc' = "loop"
          /\ UNCHANGED <<response, escaped>>
       \/ /\ event.kind = "direct"
          /\ hpc' = "direct"
          /\ UNCHANGED <<response, escaped>>

\* the pdfplumber deployment: import_pdfplumber() first, no direct
\* invocation, and a handle_s3_event that reads event['s3']['records']
lambda_handler_pdfplumber ==
    /\ hpc = "entry"
    /\ variant = "pdfplumber"
    /\ UNCHANGED <<wvars, fvars, variant, event, rvars, svars, idx, results>>
    /\ \/ \* import_pdfplumber() finds no library in the package
          Catch("ImportError")
       \/ /\ event.kind = "malformed"
          /\ Catch("TypeError")
       \/ /\ has_Records(event)
          /\ IF event.kind = "s3nested"
             THEN /\ hpc' = "loop"
                  /\ UNCHANGED <<response, escaped>>
             ELSE Catch("KeyError: 's3'")
       \/ /\ event.kind = "direct"
          /\ response' = Response400
          /\ hpc' = "returned"
          /\ UNCHANGED escaped

\* one iteration of the loop over the trigger records, or the return after it
handle_s3_event ==
    /\ hpc = "loop"
    /\ UNCHANGED <<wvars, fvars, variant, event, table, writes, disk, ended, escaped>>
    /\ IF idx > Len(event.Records)
       THEN /\ response' = Response200(Len(results))
            /\ hpc' = "returned"
            /\ UNCHANGED <<idx, results, rvars, nextId>>
       ELSE IF ~ key_matches(variant, event.Records[idx])
       THEN /\ idx' = idx + 1
            /\ UNCHANGED <<hpc, results, response, rvars, nextId>>
       ELSE /\ StartRun(event.Records[idx])
            /\ UNCHANGED <<idx, results, response>>

handle_direct_invocation ==
    /\ hpc = "direct"
    /\ UNCHANGED <<wvars, fvars, variant, event, table, writes, disk, ended, escaped, idx, results>>
    /\ IF event.key = NoKey
       THEN /\ response' = Response400
            /\ hpc' = "returned"
            /\ UNCHANGED <<rvars, nextId>>
       ELSE /\ StartRun(event.key)
            /\ UNCHANGED response

\* the document run hands control back to the function that called it
ReturnToCaller ==
    /\ hpc = "run"
    /\ pc \in {"completed", "failed", "raised"}
    /\ UNCHANGED <<wvars, fvars, variant, event, svars, doc, tier, tried, phases>>
    /\ pc' = "idle"
    /\ IF pc = "raised"
       THEN \* neither handle_s3_event nor handle_direct_invocation catches
            /\ Catch(doc.e)
            /\ UNCHANGED <<idx, results>>
       ELSE IF event.kind = "direct"
       THEN /\ response' = Response200(1)
            /\ hpc' = "returned"
            /\ results' = Append(results, Summary(doc, pc))
            /\ UNCHANGED <<idx, escaped>>
       ELSE /\ results' = Append(results, Summary(doc, pc))
            /\ idx' = idx + 1
            /\ hpc' = "loop"
            /\ UNCHANGED <<response, escaped>>

\* ------------------------------------------------------------ scoring
Min(a, b) == IF a < b THEN a ELSE b

\* medical_count: terms of the vocabulary found in the text; a line of the
\* model's texts is atomic and holds a term when it is that term
medical_count(text, terms) ==
    Cardinality({ t \in terms : \E i \in 1..Len(text) : text[i] = t })

\* re.split(r'[.!?]+', text) pieces longer than 10 characters: a text
\* without terminators is one piece
complete_sentences(text) == IF stripped_lines(text) = <<>> THEN 0 ELSE 1

\* calculate_text_confidence with the keyword bonus wrapping around at 0.2
\* (medical_count * 0.05 % 0.2) where the code has min(.., 0.2)
text_confidence_wrapping(hits, nlines, sentences) ==
    Min(50 + ((hits * 5) % 20)
           + (IF nlines > 5 THEN 10 ELSE 0)
           + (IF nlines > 20 THEN 10 ELSE 0)
           + (IF sentences > 3 THEN 10 ELSE 0),
        95)

\* calculate_text_confidence on the text's statistics
text_confidence(hits, nlines, sentences) ==
    Min(50 + Min(hits * 5, 20)
           + (IF nlines > 5 THEN 10 ELSE 0)
           + (IF nlines > 20 THEN 10 ELSE 0)
           + (IF sentences > 3 THEN 10 ELSE 0),
        95)

calculate_text_confidence(text) ==
    IF text = <<>> THEN 0
    ELSE text_confidence(
             medical_count(text, {"patient", "doctor", "medical", "diagnosis",
                                  "treatment", "medication", "test", "result"}),
             Len(stripped_lines(text)), complete_sentences(text))

calculate_text_confidence_simple(text) ==
    IF text = <<>> THEN 0
    ELSE Min(60 + Min(medical_count(text, {"patient", "doctor", "medical",
                                           "diagnosis", "treatment"}) * 10, 30)
                + (IF Len(stripped_lines(text)) > 10 THEN 10 ELSE 0),
             95)

\* pdfplumber deployment
calculate_confidence(text, line_count) ==
    IF text = <<>> \/ line_count < 3 THEN 30
    ELSE Min(85 + (IF medical_count(text, {"patient", "doctor", "medical", "diagnosis",
                                           "treatment", "medication"}) > 0
                   THEN 10 ELSE 0),
             99)

\* ------------------------------------------------------- extraction chains
Outcome(text, confidence, pages, lines, t) ==
    [text |-> text, confidence |-> confidence, pages |-> pages, lines |-> lines, tier |-> t]

\* extract_text_multi_method returning whatever an engine produced, without
\* the "if text_parts:" test (as process_pdf_smart does)
multi_method_tier_unguarded(i, raised, n, blank) ==
    IF i \in {1, 2}
    THEN IF raised THEN NoOutcome
         ELSE Outcome(TextOf(n), calculate_text_confidence(TextOf(n)), PageCount, n, i)
    ELSE IF raised THEN Outcome(<<"PDF processing failed">>, 0, 1, 0, 0)
    ELSE IF n = 0
    THEN Outcome(<<"Text extraction completed - limited content available">>, 50, 1, 1, 0)
    ELSE Outcome(TextOf(Min(n, 30)), 60, 1, n, i)

\* What tier i of extract_text_multi_method returns when its library raised
\* or found n usable lines; NoOutcome when control falls through to the next.
\* blank: pdfplumber returned page text that is white space only, which
\* "if page_text:" keeps (PyPDF2's page text goes through clean_pdf_text,
\* which returns "" for it).
multi_method_tier(i, raised, n, blank) ==
    IF i = 1 /\ blank
    THEN Outcome(BlankText, calculate_text_confidence(BlankText), PageCount, 0, i)
    ELSE IF i \in {1, 2}
    THEN IF raised \/ n = 0 THEN NoOutcome
         ELSE Outcome(TextOf(n), calculate_text_confidence(TextOf(n)), PageCount, n, i)
    ELSE IF raised THEN Outcome(<<"PDF processing failed">>, 0, 1, 0, 0)
    ELSE IF n = 0
    THEN Outcome(<<"Text extraction completed - limited content available">>, 50, 1, 1, 0)
    ELSE Outcome(TextOf(Min(n, 30)), 60, 1, n, i)

\* the enhanced basic extraction of extract_text_robust on a file whose
\* readable lines are final_lines:
\* confidence = 0.7 if medical_lines else 0.6
robust_fallback(final_lines, i) ==
    Outcome(final_lines,
            IF medical_count(final_lines, {"patient", "medical", "doctor", "health",
                   "diagnosis", "treatment", "medication", "test", "result"}) > 0
            THEN 70 ELSE 60,
            1, Len(final_lines), i)

\* extract_text_robust: PyPDF2, then the enhanced basic extraction
robust_tier(i, raised, n) ==
    IF i = 1
    THEN IF raised \/ n = 0 THEN NoOutcome
         ELSE Outcome(TextOf(n), calculate_text_confidence_simple(TextOf(n)), PageCount, n, i)
    ELSE IF raised
    THEN Outcome(<<"PDF processing completed with limited success">>, 40, 1, 1, 0)
    ELSE IF n = 0
    THEN Outcome(<<"Enhanced text extraction completed - limited readable content">>,
                 50, 1, 1, 0)
    ELSE robust_fallback(TextOf(n), i)

\* confidence = 1.0 for a line PaddleOCR reports without a score
UnscoredConfidence == 100

RECURSIVE total_confidence(_)
total_confidence(confidences) ==
    IF confidences = <<>> THEN 0
    ELSE Head(confidences) + total_confidence(Tail(confidences))

\* the loops of process_pdf_smart over the recognised lines: a line counts
\* if confidence > 0.6, and
\* avg_confidence = total_confidence / total_lines if total_lines > 0 else 0
\* (rounded down to the hundredth)
avg_confidence(confidences) ==
    LET accepted == SelectSeq(confidences, LAMBDA c : c > 60)
    IN  IF Len(accepted) > 0 THEN total_confidence(accepted) \div Len(accepted) ELSE 0

\* process_pdf_smart: PaddleOCR, then EasyOCR, then process_pdf_enhanced_basic
smart_tier(i, raised, n) ==
    IF i \in {1, 2}
    THEN IF raised THEN NoOutcome
         ELSE Outcome(TextOf(n), avg_confidence([k \in 1..n |-> OcrConfidence]),
                      Min(PageCount, 3), n, i)
    ELSE IF raised THEN Outcome(<<"PDF processing failed">>, 0, 1, 0, 0)
    ELSE Outcome(TextOf(n), 75, PageCount, n, i)

\* the inline pdfplumber extraction of process_pdf_with_pdfplumber, for a
\* document whose first page holds n lines of text and whose tables are empty
pdfplumber_extraction(n) ==
    LET extracted_text == IF n = 0 THEN <<>> ELSE <<"--- Page 1 ---">> \o TextOf(n)
        lines_extracted == IF n = 0 THEN 1 ELSE Len(extracted_text)
    IN  Outcome(extracted_text, calculate_confidence(extracted_text, lines_extracted),
                PageCount, lines_extracted, 1)

chain_tier(v, i, raised, n, blank) ==
    CASE v = "enhanced" -> multi_method_tier(i, raised, n, blank)
      [] v = "fixed"    -> robust_tier(i, raised, n)
      [] v = "smart"    -> smart_tier(i, raised, n)

\* ------------------------------------------------------------ classifiers
\* For the classifiers a text is a sequence of pieces, the text being their
\* concatenation, and a keyword is the sequence of the pieces it is made of.
\* text.lower()
text_lower(text) ==
    [i \in 1..Len(text) |-> IF text[i] = "Glucose" THEN "glucose" ELSE text[i]]

\* keyword in text_lower
occurs(keyword, text) ==
    \E i \in 0..(Len(text) - Len(keyword)) : SubSeq(text, i + 1, i + Len(keyword)) = keyword

\* sum(1 for keyword in keywords if keyword in text_lower)
matches(keywords, text) ==
    Cardinality({ k \in 1..Len(keywords) : occurs(keywords[k], text) })

\* the list of classify_medical_document_enhanced, base_confidence in tenths
classifications ==
    << [keywords |-> << <<"laboratory">>, <<"lab", " ", "result">>, <<"glucose">>,
                        <<"cholesterol">>, <<"blood", " ", "test">>, <<"hemoglobin">>,
                        <<"white", " ", "blood", " ", "cell">>, <<"platelet">> >>,
        doc_type |-> "lab_result", base_confidence |-> 9],
       [keywords |-> << <<"prescription">>, <<"medication">>, <<"pharmacy">>, <<"rx">>,
                        <<"tablets">>, <<"mg">>, <<"dosage">>,
                        <<"take", " ", "with", " ", "food">> >>,
        doc_type |-> "prescription", base_confidence |-> 9],
       [keywords |-> << <<"x-ray">>, <<"mri">>, <<"ct", " ", "scan">>, <<"ultrasound">>,
                        <<"radiology">>, <<"imaging">>, <<"mammogram">> >>,
        doc_type |-> "imaging_report", base_confidence |-> 9],
       [keywords |-> << <<"discharge">>, <<"hospital">>, <<"admission">>, <<"summary">>,
                        <<"patient", " ", "care">>, <<"discharge", " ", "summary">> >>,
        doc_type |-> "discharge_summary", base_confidence |-> 8],
       [keywords |-> << <<"consultation">>, <<"clinic", " ", "note">>,
                        <<"follow", " ", "up">>, <<"assessment">>, <<"examination">>,
                        <<"vital", " ", "signs">> >>,
        doc_type |-> "consultation_note", base_confidence |-> 8],
       [keywords |-> << <<"surgery">>, <<"operation">>, <<"procedure">>, <<"surgical">>,
                        <<"operative">>, <<"anesthesia">> >>,
        doc_type |-> "surgical_report", base_confidence |-> 8],
       [keywords |-> << <<"medical">>, <<"patient">>, <<"doctor">>, <<"clinic">>,
                        <<"health">>, <<"diagnosis">>, <<"treatment">> >>,
        doc_type |-> "medical_document", base_confidence |-> 6] >>

\* confidence = base_confidence * (matches / len(keywords)), as the exact
\* multiple of 1/1680 it is (1680 = 10 * lcm(6, 7, 8)); the floating-point
\* products of the code compare as these do
confidence_of(c, text) ==
    (c.base_confidence * matches(c.keywords, text) * 168) \div Len(c.keywords)

\* the loop of classify_medical_document_enhanced from tuple i on
RECURSIVE best_match_from(_, _, _, _)
best_match_from(list, i, text, best_match) ==
    IF i > Len(list) THEN best_match
    ELSE IF matches(list[i].keywords, text) > 0
            /\ confidence_of(list[i], text) > best_match[2]
    THEN best_match_from(list, i + 1, text,
                         <<list[i].doc_type, confidence_of(list[i], text)>>)
    ELSE best_match_from(list, i + 1, text, best_match)

\* paddleocr-lite-analysis.md
classify_medical_document_enhanced(text) ==
    IF text = <<>> THEN "unknown"
    ELSE best_match_from(classifications, 1, text_lower(text), <<"document", 0>>)[1]

\* the list of the fixed deployment's classifier (its tuples carry no weight)
classifications_fixed ==
    << [keywords |-> << <<"lab">>, <<"laboratory">>, <<"test">>, <<"blood">>,
                        <<"glucose">>, <<"result">> >>,
        doc_type |-> "lab_result", base_confidence |-> 10],
       [keywords |-> << <<"prescription">>, <<"medication">>, <<"rx">>, <<"pharmacy">>,
                        <<"dosage">> >>,
        doc_type |-> "prescription", base_confidence |-> 10],
       [keywords |-> << <<"x-ray">>, <<"scan">>, <<"imaging">>, <<"radiology">>,
                        <<"mri">> >>,
        doc_type |-> "imaging_report", base_confidence |-> 10],
       [keywords |-> << <<"discharge">>, <<"hospital">>, <<"admission">>, <<"summary">> >>,
        doc_type |-> "discharge_summary", base_confidence |-> 10],
       [keywords |-> << <<"medical">>, <<"patient">>, <<"doctor">>, <<"clinic">>,
                        <<"health">> >>,
        doc_type |-> "medical_document", base_confidence |-> 10] >>

\* setup-gcp-credentials.md: the first tuple with two keywords in the text
classify_medical_document_enhanced_fixed(text) ==
    IF text = <<>> THEN "unknown"
    ELSE LET hit == { i \in 1..Len(classifications_fixed) :
                         matches(classifications_fixed[i].keywords, text_lower(text)) >= 2 }
         IN  IF hit = {} THEN "document"
             ELSE classifications_fixed[CHOOSE i \in hit : \A j \in hit : i <= j].doc_type

\* part_014
classify_document(text) ==
    IF text = <<>> THEN "unknown"
    ELSE LET text_l == text_lower(text)
         IN  IF occurs(<<"lab">>, text_l) /\ occurs(<<"result">>, text_l) THEN "lab_result"
             ELSE IF occurs(<<"prescription">>, text_l) \/ occurs(<<"rx">>, text_l)
             THEN "prescription"
             ELSE IF occurs(<<"radiology">>, text_l) \/ occurs(<<"imaging">>, text_l)
             THEN "imaging_report"
             ELSE "medical_document"

\* part_016: the first tuple with a keyword in the text
classifications_smart ==
    << [keywords |-> << <<"lab">>, <<"laboratory">>, <<"test">>, <<"blood">>,
                        <<"glucose">> >>,
        doc_type |-> "lab_result"],
       [keywords |-> << <<"prescription">>, <<"medication">>, <<"rx">>, <<"pharmacy">> >>,
        doc_type |-> "prescription"],
       [keywords |-> << <<"x-ray">>, <<"scan">>, <<"imaging">>, <<"radiology">> >>,
        doc_type |-> "imaging_report"],
       [keywords |-> << <<"discharge">>, <<"hospital">>, <<"admission">> >>,
        doc_type |-> "discharge_summary"],
       [keywords |-> << <<"medical">>, <<"patient">>, <<"doctor">>, <<"clinic">> >>,
        doc_type |-> "medical_document"] >>

classify_medical_document(text) ==
    IF text = <<>> THEN "unknown"
    ELSE LET hit == { i \in 1..Len(classifications_smart) :
                         matches(classifications_smart[i].keywords, text_lower(text)) >= 1 }
         IN  IF hit = {} THEN "document"
             ELSE classifications_smart[CHOOSE i \in hit : \A j \in hit : i <= j].doc_type

\* the classifier each deployment's run calls on the extracted text; a line
\* of the run's texts is one piece (none of them holds a keyword)
document_type(v, text) ==
    CASE v = "enhanced"   -> classify_medical_document_enhanced(text)
      [] v = "fixed"      -> classify_medical_document_enhanced_fixed(text)
      [] v = "smart"      -> classify_medical_document(text)
      [] v = "pdfplumber" -> classify_document(text)


\* ------------------------------------------------------------ document run
ContentTypes(v) ==
    IF v = "smart" THEN {"application/pdf", "text/plain"} ELSE {"application/pdf"}

\* head_response = s3_client.head_object(Bucket=bucket, Key=key)
head_object ==
    /\ pc = "head"
    /\ UNCHANGED <<wvars, fvars, variant, event, hvars, svars, tier, tried>>
    /\ \/ /\ \E ct \in ContentTypes(variant) : doc' = [doc EXCEPT !.content_type = ct]
          /\ pc' = "download"
          /\ UNCHANGED phases
       \/ /\ doc' = [doc EXCEPT !.e = "head_object failed"]
          /\ pc' = "except"
          /\ phases' = Append(phases, "FAILED")

\* with tempfile.NamedTemporaryFile(delete=False, ...) as tmp_file:
\*     s3_client.download_fileobj(bucket, key, tmp_file)
\*     temp_file_path = tmp_file.name
download_fileobj ==
    /\ pc = "download"
    /\ UNCHANGED <<wvars, fvars, variant, event, hvars, table, writes, nextId, ended, tried>>
    /\ disk' = disk \cup {doc.documentId}
    /\ \/ /\ doc' = [doc EXCEPT !.created = doc.documentId,
                                !.temp_file_path = doc.documentId]
          /\ pc' = "extract"
          /\ tier' = 1
          /\ phases' = Append(phases, "EXTRACTING")
       \/ /\ doc' = [doc EXCEPT !.created = doc.documentId, !.e = "download failed"]
          /\ pc' = "except"
          /\ phases' = Append(phases, "FAILED")
          /\ UNCHANGED tier

\* one tier of the deployment's extraction chain
extraction_tier ==
    /\ pc = "extract"
    /\ variant \in {"enhanced", "fixed", "smart"}
    /\ doc.content_type = "application/pdf"
    /\ UNCHANGED <<wvars, fvars, variant, event, hvars, svars>>
    /\ \E raised \in BOOLEAN, n \in 0..MaxLines, blank \in BOOLEAN :
          /\ raised => (n = 0 /\ ~ blank)
          /\ blank => (n = 0 /\ variant = "enhanced" /\ tier = 1)
          /\ tried' = Append(tried, [tier |-> tier, raised |-> raised, lines |-> n,
                                     blank |-> blank])
          /\ LET r == chain_tier(variant, tier, raised, n, blank)
             IN  IF r = NoOutcome
                 THEN /\ tier' = tier + 1
                      /\ UNCHANGED <<pc, doc, phases>>
                 ELSE /\ doc' = [doc EXCEPT !.outcome = r]
                      /\ pc' = "classify"
                      /\ phases' = Append(phases, "SCORING")
                      /\ UNCHANGED tier

\* raise ValueError(f"Unsupported file type: {content_type}")
unsupported_file_type ==
    /\ pc = "extract"
    /\ variant = "smart"
    /\ doc.content_type # "application/pdf"
    /\ UNCHANGED <<wvars, fvars, variant, event, hvars, svars, tier, tried, phases>>
    /\ doc' = [doc EXCEPT !.e = "Unsupported file type"]
    /\ pc' = "finally"

\* with pdfplumber.open(temp_file_path) as pdf: ... calculate_confidence(...)
pdfplumber_extract ==
    /\ pc = "extract"
    /\ variant = "pdfplumber"
    /\ UNCHANGED <<wvars, fvars, variant, event, hvars, svars, tier>>
    /\ \E raised \in BOOLEAN, n \in 0..MaxLines :
          /\ raised => n = 0
          /\ tried' = Append(tried, [tier |-> tier, raised |-> raised, lines |-> n,
                                     blank |-> FALSE])
          /\ IF raised
             THEN /\ doc' = [doc EXCEPT !.e = "pdfplumber failed"]
                  /\ pc' = "finally"
                  /\ UNCHANGED phases
             ELSE /\ doc' = [doc EXCEPT !.outcome = pdfplumber_extraction(n)]
                  /\ pc' = "classify"
                  /\ phases' = Append(phases, "SCORING")

\* the texts an extraction hands on to the classifier
RunTexts ==
    { TextOf(n) : n \in 0..MaxLines }
        \cup { <<"--- Page 1 ---">> \o TextOf(n) : n \in 1..MaxLines }
        \cup { BlankText, <<"PDF processing failed">>,
               <<"Text extraction completed - limited content available">>,
               <<"PDF processing completed with limited success">>,
               <<"Enhanced text extraction completed - limited readable content">> }

\* document_type of every deployment on every such text, worked out once
document_types == [v \in Variants, text \in RunTexts |-> document_type(v, text)]

\* document_type = classify_...(extracted_text) and the other pure functions
\* of the text that fill the record
classify ==
    /\ pc = "classify"
    /\ UNCHANGED <<wvars, fvars, variant, event, hvars, svars, tier, tried>>
    /\ doc' = [doc EXCEPT !.document_type = document_types[variant, doc.outcome.text]]
    /\ pc' = "save"
    /\ phases' = Append(phases, "CLASSIFYING")

\* save_to_dynamodb(record), then logger.info("Successfully processed ...")
save_record ==
    /\ pc = "save"
    /\ UNCHANGED <<wvars, fvars, variant, event, hvars, disk, nextId, ended, tier, tried>>
    /\ pc' = "finally"
    /\ LET record == success_record(doc, processingEngine(variant))
       IN  \/ /\ table' = put_item(table, record)
              /\ writes' = Append(writes, WriteEntry(record, "success", TRUE))
              /\ phases' = phases \o <<"PERSISTING", "DONE">>
              /\ UNCHANGED doc
           \/ /\ writes' = Append(writes, WriteEntry(record, "success", FALSE))
              /\ UNCHANGED table
              /\ IF save_reraises(variant)
                 THEN /\ doc' = [doc EXCEPT !.e = "DynamoDB save error"]
                      /\ phases' = Append(phases, "PERSISTING")
                 ELSE /\ phases' = phases \o <<"PERSISTING", "DONE">>
                      /\ UNCHANGED doc

\* finally: if os.path.exists(temp_file_path): os.unlink(temp_file_path)
cleanup ==
    /\ pc = "finally"
    /\ UNCHANGED <<wvars, fvars, variant, event, hvars, table, writes, nextId, tier, tried>>
    /\ \/ /\ disk' = disk \ {doc.temp_file_path}
          /\ UNCHANGED doc
          /\ IF doc.e = ""
             THEN /\ pc' = "completed"
                  /\ ended' = Append(ended, EndedRun(doc, "completed"))
                  /\ UNCHANGED phases
             ELSE /\ pc' = "except"
                  /\ phases' = Append(phases, "FAILED")
                  /\ UNCHANGED ended
       \/ \* os.unlink raises; its exception replaces a pending one
          /\ doc' = [doc EXCEPT !.e = "unlink failed"]
          /\ pc' = "except"
          /\ phases' = Append(phases, "FAILED")
          /\ UNCHANGED <<disk, ended>>

\* except Exception as e: ... try: save_to_dynamodb(error_record)
\*                            except: pass
\*                            raise e
except_handler ==
    /\ pc = "except"
    /\ variant \in {"enhanced", "smart"}
    /\ UNCHANGED <<wvars, fvars, variant, event, hvars, disk, nextId, doc, tier, tried, phases>>
    /\ LET record == error_record(doc, processingEngine(variant))
       IN  \E ok \in BOOLEAN :
              /\ writes' = Append(writes, WriteEntry(record, "error", ok))
              /\ table' = IF ok THEN put_item(table, record) ELSE table
    /\ pc' = "raised"
    /\ ended' = Append(ended, EndedRun(doc, "raised"))

\* except Exception as e: logger.error(...); raise e
except_handler_fixed ==
    /\ pc = "except"
    /\ variant = "fixed"
    /\ UNCHANGED <<wvars, fvars, variant, event, hvars, table, writes, disk, nextId, doc, tier, tried,
                   phases>>
    /\ pc' = "raised"
    /\ ended' = Append(ended, EndedRun(doc, "raised"))

\* except Exception as e: ... save_to_dynamodb(error_record)
\*                            return {..., 'status': 'failed', ...}
except_handler_pdfplumber ==
    /\ pc = "except"
    /\ variant = "pdfplumber"
    /\ UNCHANGED <<wvars, fvars, variant, event, hvars, disk, nextId, doc, tier, tried, phases>>
    /\ LET record == error_record(doc, processingEngine(variant))
       IN  \E ok \in BOOLEAN :
              /\ writes' = Append(writes, WriteEntry(record, "error", ok))
              /\ table' = IF ok THEN put_item(table, record) ELSE table
    /\ pc' = "failed"
    /\ ended' = Append(ended, EndedRun(doc, "failed"))

\* The nested shape is enumerated for the one deployment that reads it.
EventsOf(v) ==
    { ev \in Events : (ev.kind = "s3nested") => (v = "pdfplumber") }

Init ==
    /\ variant \in Variants
    /\ event \in EventsOf(variant)
    /\ hpc = "entry"
    /\ idx = 1
    /\ results = <<>>
    /\ response = NoResponse
    /\ escaped = FALSE
    /\ pc = "idle"
    /\ doc = NoDoc
    /\ tier = 0
    /\ tried = <<>>
    /\ phases = <<>>
    /\ table = <<>>
    /\ writes = <<>>
    /\ disk = {}
    /\ nextId = 1
    /\ ended = <<>>
    /\ fn = "none"
    /\ arg = <<>>
    /\ ret = NoReturn
    /\ IdleWeb

Next ==
    \/ lambda_handler
    \/ lambda_handler_pdfplumber
    \/ handle_s3_event
    \/ handle_direct_invocation
    \/ ReturnToCaller
    \/ head_object
    \/ download_fileobj
    \/ extraction_tier
    \/ unsupported_file_type
    \/ pdfplumber_extract
    \/ classify
    \/ save_record
    \/ cleanup
    \/ except_handler
    \/ except_handler_fixed
    \/ except_handler_pdfplumber

Spec == Init /\ [][Next]_vars

TypeOK ==
    /\ variant \in Variants
    /\ hpc \in {"entry", "loop", "direct", "run", "returned"}
    /\ pc \in {"idle", "head", "download", "extract", "classify", "save", "finally",
               "except", "completed", "failed", "raised"}
    /\ escaped \in BOOLEAN
    /\ disk \subseteq 1..MaxRecords
    /\ nextId \in 1..(MaxRecords + 1)

\* ================================================================ text calls
\* The text functions of the deployments, called on their own.  A call is
\* (fn, arg); ret holds what it returned.

\* the invocation variables while a text function is called on its own
IdleInvocation ==
    /\ variant = "enhanced"
    /\ event = [kind |-> "direct", Records |-> <<>>, key |-> NoKey]
    /\ hpc = "entry"
    /\ idx = 1
    /\ results = <<>>
    /\ response = NoResponse
    /\ escaped = FALSE
    /\ pc = "idle"
    /\ doc = NoDoc
    /\ tier = 0
    /\ tried = <<>>
    /\ phases = <<>>
    /\ table = <<>>
    /\ writes = <<>>
    /\ disk = {}
    /\ nextId = 1
    /\ ended = <<>>

\* return v
Return(v) ==
    /\ ~ ret.done
    /\ ret' = [done |-> TRUE, value |-> v]
    /\ UNCHANGED <<wvars, fn, arg, variant, event, hvars, rvars, svars>>

\* ------------------------------------------------------------ characters
\* A page text is the sequence of its characters.  One character stands for
\* each class the cleaners tell apart: a letter, a digit, the blank, the line
\* feed and the ligature U+FB01.
LF == "\n"
LigatureFi == "U+FB01"
Chars == {"a", "7", " ", LF, LigatureFi}

\* c.isalpha()
isalpha(c) == c \in {"a", "f", "i", LigatureFi}
\* \d, c.isdigit()
isdigit(c) == c = "7"
\* \s
isspace(c) == c \in {" ", LF}

CharTexts == SeqsUpTo(Chars, MaxChars)

RECURSIVE lstrip(_)
lstrip(s) == IF s # <<>> /\ isspace(Head(s)) THEN lstrip(Tail(s)) ELSE s

RECURSIVE rstrip(_)
rstrip(s) ==
    IF s # <<>> /\ isspace(s[Len(s)]) THEN rstrip(SubSeq(s, 1, Len(s) - 1)) ELSE s

\* line.strip()
strip(s) == rstrip(lstrip(s))

\* text.replace('  ', ' '): one pass over the text, left to right, each pair
\* of blanks becoming one blank
RECURSIVE replace_blank_pairs(_)
replace_blank_pairs(s) ==
    IF Len(s) < 2 THEN s
    ELSE IF s[1] = " " /\ s[2] = " "
    THEN <<" ">> \o replace_blank_pairs(SubSeq(s, 3, Len(s)))
    ELSE <<Head(s)>> \o replace_blank_pairs(Tail(s))

\* re.sub(r'\s+', ' ', text): every run of white space becomes one blank
RECURSIVE collapse_whitespace(_)
collapse_whitespace(s) ==
    IF s = <<>> THEN <<>>
    ELSE IF isspace(Head(s)) THEN <<" ">> \o collapse_whitespace(lstrip(s))
    ELSE <<Head(s)>> \o collapse_whitespace(Tail(s))

\* text.replace('ﬁ', 'fi')
RECURSIVE replace_ligatures(_)
replace_ligatures(s) ==
    IF s = <<>> THEN <<>>
    ELSE (IF Head(s) = LigatureFi THEN <<"f", "i">> ELSE <<Head(s)>>)
             \o replace_ligatures(Tail(s))

\* text.split('\n'): the sequence of the lines, at least one
RECURSIVE split_lines(_)
split_lines(s) ==
    IF \A i \in 1..Len(s) : s[i] # LF THEN <<s>>
    ELSE LET i == CHOOSE k \in 1..Len(s) : s[k] = LF /\ \A j \in 1..(k - 1) : s[j] # LF
         IN  <<SubSeq(s, 1, i - 1)>> \o split_lines(SubSeq(s, i + 1, Len(s)))

\* '\n'.join(lines)
RECURSIVE join_lines(_)
join_lines(lines) ==
    IF lines = <<>> THEN <<>>
    ELSE IF Len(lines) = 1 THEN lines[1]
    ELSE lines[1] \o <<LF>> \o join_lines(Tail(lines))

alpha_count(line) == Cardinality({ i \in 1..Len(line) : isalpha(line[i]) })

\* re.match(r'^\d+$', line), line.isdigit()
all_digits(line) == line # <<>> /\ \A i \in 1..Len(line) : isdigit(line[i])

\* the three tests of clean_pdf_text's loop, on a stripped line:
\* sum(c.isalpha() for c in line) < len(line) * 0.3 is taken in tenths
keeps_line(line) ==
    /\ ~ all_digits(line)
    /\ ~ (Len(line) < 3)
    /\ ~ (10 * alpha_count(line) < 3 * Len(line))

\* len(line) > 3 and not line.isdigit() and
\* sum(c.isalpha() for c in line) > len(line) * 0.2   (in tenths)
keeps_line_simple(line) ==
    /\ Len(line) > 3
    /\ ~ all_digits(line)
    /\ 10 * alpha_count(line) > 2 * Len(line)

stripped(lines) == [i \in 1..Len(lines) |-> strip(lines[i])]

\* clean_pdf_text with text.replace('  ', ' ') where the code has re.sub
clean_pdf_text_pairwise(text) ==
    IF text = <<>> THEN <<>>
    ELSE join_lines(SelectSeq(
             stripped(split_lines(replace_ligatures(replace_blank_pairs(text)))),
             keeps_line))

clean_pdf_text(text) ==
    IF text = <<>> THEN <<>>
    ELSE join_lines(SelectSeq(
             stripped(split_lines(replace_ligatures(collapse_whitespace(text)))),
             keeps_line))

clean_pdf_text_simple(text) ==
    IF text = <<>> THEN <<>>
    ELSE join_lines(SelectSeq(
             stripped(split_lines(replace_ligatures(collapse_whitespace(text)))),
             keeps_line_simple))

call_clean_pdf_text ==
    /\ fn = "clean_pdf_text"
    /\ Return(clean_pdf_text(arg))

call_clean_pdf_text_simple ==
    /\ fn = "clean_pdf_text_simple"
    /\ Return(clean_pdf_text_simple(arg))

\* ------------------------------------------------------------ scoring calls
\* what calculate_text_confidence looks at in a non-empty text: the vocabulary
\* terms found, the non-empty lines and the complete sentences
TextStatistics ==
    [hits : 0..MaxHits, nlines : 0..MaxLineCount, sentences : 0..MaxSentences]

\* texts as sequences of lines, with and without a vocabulary term
LineTexts == SeqsUpTo({SampleLines[1], SampleLines[2], "patient"}, MaxLines + 1)

\* per-line confidences an OCR engine reports: rejected, ordinary, unscored
OcrReports == SeqsUpTo({50, OcrConfidence, UnscoredConfidence}, MaxLines)

call_calculate_text_confidence ==
    /\ fn = "calculate_text_confidence"
    /\ Return(text_confidence(arg.hits, arg.nlines, arg.sentences))

\* the confidence process_pdf_smart returns from its PaddleOCR or EasyOCR tier
call_process_pdf_smart ==
    /\ fn = "process_pdf_smart"
    /\ Return(avg_confidence(arg))

\* the confidence extract_text_robust returns from its basic extraction
call_extract_text_robust ==
    /\ fn = "extract_text_robust"
    /\ Return(robust_fallback(arg, 2).confidence)

call_calculate_confidence ==
    /\ fn = "calculate_confidence"
    /\ Return(calculate_confidence(arg, Len(arg)))

\* A page as pdfplumber reads it: page.extract_text() gives n lines of text
\* and page.extract_tables() one table, a list of rows of two cells, a cell
\* without text being None.
None == "None"
Cells == {None, "patient", "5"}
TablePages == [lines : 0..MaxLines, table : SeqsUpTo(Cells \X Cells, MaxLines)]

\* ' | '.join(cells)
RECURSIVE join_cells(_)
join_cells(cells) ==
    IF cells = <<>> THEN ""
    ELSE IF Len(cells) = 1 THEN cells[1]
    ELSE cells[1] \o " | " \o join_cells(Tail(cells))

\* row_text = ' | '.join([cell for cell in row if cell])
row_text(row) == join_cells(SelectSeq(row, LAMBDA cell : cell # None /\ cell # ""))

\* the rows appended to text_parts: if row_text.strip()
table_lines(rows) ==
    LET texts == [r \in 1..Len(rows) |-> row_text(rows[r])]
    IN  SelectSeq(texts, LAMBDA t : t # "" /\ t # " ")

\* term in text.lower(), for the terms of calculate_text_confidence: a term of
\* the vocabulary found in the page's lines or in a cell of the table
table_medical_count(page, terms) ==
    Cardinality({ t \in terms :
                     \/ \E i \in 1..page.lines : TextOf(page.lines)[i] = t
                     \/ \E r \in 1..Len(page.table) : \E c \in 1..2 : page.table[r][c] = t })

\* Method 1 of extract_text_multi_method on a document whose first page is
\* page: the page's text followed by the rows of its table, scored by
\* calculate_text_confidence; NoOutcome when text_parts stays empty
multi_method_pdfplumber(page) ==
    LET full_text == TextOf(page.lines) \o table_lines(page.table)
    IN  IF full_text = <<>> THEN NoOutcome
        ELSE Outcome(full_text,
                     text_confidence(
                         table_medical_count(page, {"patient", "doctor", "medical",
                             "diagnosis", "treatment", "medication", "test", "result"}),
                         Len(stripped_lines(full_text)), complete_sentences(full_text)),
                     PageCount, Len(stripped_lines(full_text)), 1)

call_extract_text_multi_method ==
    /\ fn = "extract_text_multi_method"
    /\ Return(multi_method_pdfplumber(arg))

\* ------------------------------------------------------------ keywords
\* For the classifiers and the keyword extractor a text is a sequence of
\* pieces, the text being their concatenation, and a keyword is the sequence
\* of the pieces it is made of.  No keyword of the code begins inside one of
\* these pieces or ends inside one, so that "keyword in text" is: the
\* keyword's pieces occur in the text, one after the other.
Pieces == {"Glucose", "pharmacy", "mg", "blood", " ", "pressure", "fever"}

PieceTexts == SeqsUpTo(Pieces, MaxPieces)

call_classify_medical_document_enhanced ==
    /\ fn = "classify_medical_document_enhanced"
    /\ Return(classify_medical_document_enhanced(arg))

call_classify_medical_document_enhanced_fixed ==
    /\ fn = "classify_medical_document_enhanced_fixed"
    /\ Return(classify_medical_document_enhanced_fixed(arg))

call_classify_document ==
    /\ fn = "classify_document"
    /\ Return(classify_document(arg))

\* medical_keywords of extract_medical_keywords, in the order the dict
\* literal lists (and, from Python 3.7 on, iterates) them
medical_keywords ==
    << [category |-> "medications",
        keywords |-> << <<"aspirin">>, <<"ibuprofen">>, <<"acetaminophen">>,
                        <<"metformin">>, <<"lisinopril">>, <<"atorvastatin">> >>],
       [category |-> "conditions",
        keywords |-> << <<"diabetes">>, <<"hypertension">>, <<"asthma">>, <<"copd">>,
                        <<"heart", " ", "disease">>, <<"obesity">> >>],
       [category |-> "tests",
        keywords |-> << <<"blood", " ", "pressure">>, <<"cholesterol">>, <<"glucose">>,
                        <<"hemoglobin">>, <<"x-ray">>, <<"mri">> >>],
       [category |-> "measurements",
        keywords |-> << <<"mg">>, <<"ml">>, <<"units">>, <<"mmol">>, <<"mg", "/dl">>,
                        <<"blood", " ", "pressure">> >>],
       [category |-> "symptoms",
        keywords |-> << <<"pain">>, <<"fever">>, <<"cough">>,
                        <<"shortness", " ", "of", " ", "breath">>, <<"fatigue">>,
                        <<"nausea">> >>] >>

\* rows c.. of the outer loop, keywords k.. of the inner, skipping a keyword
\* found before under another category
RECURSIVE found_keywords_deduplicated(_, _, _, _)
found_keywords_deduplicated(text, c, k, found) ==
    IF c > Len(medical_keywords) THEN found
    ELSE IF k > Len(medical_keywords[c].keywords)
    THEN found_keywords_deduplicated(text, c + 1, 1, found)
    ELSE LET keyword == medical_keywords[c].keywords[k]
         IN  found_keywords_deduplicated(text, c, k + 1,
                 IF occurs(keyword, text_lower(text))
                    /\ \A j \in 1..Len(found) : found[j].keyword # keyword
                 THEN Append(found, [category |-> medical_keywords[c].category,
                                     keyword |-> keyword])
                 ELSE found)

\* the two loops of extract_medical_keywords from category c, keyword k on;
\* a match is its category and keyword (its context, a slice of the text
\* around the keyword's first occurrence, is left out)
RECURSIVE found_keywords_from(_, _, _, _)
found_keywords_from(text, c, k, found) ==
    IF c > Len(medical_keywords) THEN found
    ELSE IF k > Len(medical_keywords[c].keywords)
    THEN found_keywords_from(text, c + 1, 1, found)
    ELSE LET keyword == medical_keywords[c].keywords[k]
         IN  found_keywords_from(text, c, k + 1,
                 IF occurs(keyword, text_lower(text))
                 THEN Append(found, [category |-> medical_keywords[c].category,
                                     keyword |-> keyword])
                 ELSE found)

\* extract_medical_keywords that skips a keyword already found
extract_medical_keywords_deduplicated(text) ==
    IF text = <<>> THEN <<>> ELSE found_keywords_deduplicated(text, 1, 1, <<>>)

extract_medical_keywords(text) ==
    IF text = <<>> THEN <<>> ELSE found_keywords_from(text, 1, 1, <<>>)

call_extract_medical_keywords ==
    /\ fn = "extract_medical_keywords"
    /\ Return(extract_medical_keywords(arg))

\* ------------------------------------------------------------ chat sessions
\* The items of the chat table, whose key is (ChatSessionId, Timestamp); a
\* Timestamp is what new Date().toISOString() wrote.
SessionIds == {"A", "B"}
Timestamps ==
    {"2025-01-01T00:00:00.000Z", "2025-01-01T00:00:01.000Z", "2025-01-01T00:00:02.000Z"}

\* new Date(timestamp).getTime(), in seconds from the first of them
getTime(timestamp) ==
    CASE timestamp = "2025-01-01T00:00:00.000Z" -> 0
      [] timestamp = "2025-01-01T00:00:01.000Z" -> 1
      [] timestamp = "2025-01-01T00:00:02.000Z" -> 2

\* every message has a text of its own
StoredMessages ==
    { [ChatSessionId |-> s, Timestamp |-> t, Message |-> "sent " \o t \o " in " \o s,
       IsSensitive |-> b] : s \in SessionIds, t \in Timestamps, b \in BOOLEAN }

same_key(m1, m2) == m1.ChatSessionId = m2.ChatSessionId /\ m1.Timestamp = m2.Timestamp

\* result.Items of a Scan: items with different keys, in any order
RECURSIVE ItemsUpTo(_)
ItemsUpTo(n) ==
    IF n = 0 THEN { <<>> }
    ELSE LET shorter == ItemsUpTo(n - 1)
         IN  shorter \cup
             UNION { { Append(items, m) :
                          m \in { x \in StoredMessages :
                                     \A i \in 1..Len(items) : ~ same_key(items[i], x) } } :
                     items \in { t \in shorter : Len(t) = n - 1 } }

ScanResults == ItemsUpTo(MaxMessages)

\* position of sessionId in the Map, 0 when it has no entry
map_index(sessionsMap, sessionId) ==
    IF \E i \in 1..Len(sessionsMap) : sessionsMap[i].sessionId = sessionId
    THEN CHOOSE i \in 1..Len(sessionsMap) : sessionsMap[i].sessionId = sessionId
    ELSE 0

\* the entry set for a first or newer message, counting every message anew
session_entry_recounted(existing, message) ==
    [sessionId |-> message.ChatSessionId,
     lastMessage |-> message.Message,
     timestamp |-> message.Timestamp,
     messageCount |-> 1,
     hasSensitiveData |-> message.IsSensitive \/ (existing # <<>> /\ existing[1].hasSensitiveData)]

\* the entry sessionsMap.set stores for a first or newer message; existing is
\* <<>> or holds the session's entry
session_entry(existing, message) ==
    [sessionId |-> message.ChatSessionId,
     lastMessage |-> message.Message,
     timestamp |-> message.Timestamp,
     messageCount |-> IF existing # <<>> THEN existing[1].messageCount + 1 ELSE 1,
     hasSensitiveData |-> message.IsSensitive \/ (existing # <<>> /\ existing[1].hasSensitiveData)]

\* one step of messages.forEach; the Map keeps its entries in insertion order
for_each_message(sessionsMap, message) ==
    LET i == map_index(sessionsMap, message.ChatSessionId)
    IN  IF i = 0
        THEN Append(sessionsMap, session_entry(<<>>, message))
        ELSE IF getTime(message.Timestamp) > getTime(sessionsMap[i].timestamp)
        THEN [sessionsMap EXCEPT ![i] = session_entry(<<sessionsMap[i]>>, message)]
        ELSE [sessionsMap EXCEPT
                 ![i].messageCount = @ + 1,
                 ![i].hasSensitiveData = @ \/ message.IsSensitive]

RECURSIVE sessions_map(_, _)
sessions_map(sessionsMap, items) ==
    IF items = <<>> THEN sessionsMap
    ELSE sessions_map(for_each_message(sessionsMap, Head(items)), Tail(items))

\* .sort((a, b) => new Date(b.timestamp).getTime() - new Date(a.timestamp).getTime()):
\* newest first, entries of equal time in their order in the Map
RECURSIVE sort_newest_first(_)
sort_newest_first(entries) ==
    IF entries = <<>> THEN <<>>
    ELSE LET first == CHOOSE i \in 1..Len(entries) :
                 \A j \in 1..Len(entries) :
                     \/ getTime(entries[i].timestamp) > getTime(entries[j].timestamp)
                     \/ getTime(entries[i].timestamp) = getTime(entries[j].timestamp) /\ i <= j
         IN  <<entries[first]>>
                 \o sort_newest_first(SubSeq(entries, 1, first - 1)
                                          \o SubSeq(entries, first + 1, Len(entries)))

getChatSessions(items) == sort_newest_first(sessions_map(<<>>, items))

call_getChatSessions ==
    /\ fn = "getChatSessions"
    /\ Return(getChatSessions(arg))

TextInit ==
    /\ IdleInvocation
    /\ IdleWeb
    /\ ret = NoReturn
    /\ \/ fn \in {"clean_pdf_text", "clean_pdf_text_simple"} /\ arg \in CharTexts
       \/ fn = "calculate_text_confidence" /\ arg \in TextStatistics
       \/ fn = "process_pdf_smart" /\ arg \in OcrReports
       \/ fn = "extract_text_robust" /\ arg \in LineTexts \ { <<>> }
       \/ fn = "calculate_confidence" /\ arg \in LineTexts
       \/ fn = "extract_text_multi_method" /\ arg \in TablePages
       \/ fn = "getChatSessions" /\ arg \in ScanResults
       \/ /\ fn \in {"classify_medical_document_enhanced",
                     "classify_medical_document_enhanced_fixed", "classify_document",
                     "extract_medical_keywords"}
          /\ arg \in PieceTexts

TextNext ==
    \/ call_clean_pdf_text
    \/ call_clean_pdf_text_simple
    \/ call_calculate_text_confidence
    \/ call_process_pdf_smart
    \/ call_extract_text_robust
    \/ call_calculate_confidence
    \/ call_extract_text_multi_method
    \/ call_classify_medical_document_enhanced
    \/ call_classify_medical_document_enhanced_fixed
    \/ call_classify_document
    \/ call_extract_medical_keywords
    \/ call_getChatSessions

TextSpec == TextInit /\ [][TextNext]_vars

\* ============================================================ web application
\* The pipeline and the text functions stay at rest in what follows.
IdlePipeline ==
    /\ IdleInvocation
    /\ fn = "none"
    /\ arg = <<>>
    /\ ret = NoReturn

pvars == <<variant, event, hvars, rvars, svars, fvars>>

\* ------------------------------------------------------------ chat table
\* A stored message is written with the reading of the clock its Timestamp
\* and its MessageId were made from.
ChatMessage(sessionId, now, sender) ==
    [ChatSessionId |-> sessionId, Timestamp |-> now, MessageId |-> now, Sender |-> sender]

\* PutCommand: the item replaces the one stored under its key
PutCommand(items, item) ==
    { m \in items : ~ same_key(m, item) } \cup {item}

\* QueryCommand with ChatSessionId = :sessionId (the items of the session)
QueryCommand(items, sessionId) == { m \in items : m.ChatSessionId = sessionId }

\* ScanIndexForward: true, the queried items by ascending Timestamp
RECURSIVE ascending(_)
ascending(items) ==
    IF items = {} THEN <<>>
    ELSE LET first == CHOOSE m \in items : \A n \in items : m.Timestamp <= n.Timestamp
         IN  <<first>> \o ascending(items \ {first})

\* ------------------------------------------------------------ ChatInterface
\* `session_${Date.now()}`
new_session_id(now) == "session_" \o ToString(now)

\* useEffect on [activeSessionId]: the sidebar hands the component another
\* session ('' for a new chat)
select_session ==
    /\ \E s \in SessionIds \cup {""} :
          /\ s # activeSessionId
          /\ activeSessionId' = s
          /\ currentSessionId' = s
          /\ IF s # ""
             THEN fetching' = fetching \cup {s} /\ UNCHANGED messages
             ELSE messages' = <<>> /\ UNCHANGED fetching
    /\ UNCHANGED <<pvars, chatTable, clock, send, del, ocrTable, uploads>>

\* fetchMessages(sessionId), from the answer of /api/chat-messages on:
\* setMessages(data.messages), or setMessages([]) when the request failed
fetchMessages ==
    /\ \E s \in fetching :
          /\ fetching' = fetching \ {s}
          /\ \/ messages' = ascending(QueryCommand(chatTable, s))
             \/ messages' = <<>>
    /\ UNCHANGED <<pvars, chatTable, clock, activeSessionId, currentSessionId, send, del,
                   ocrTable, uploads>>

\* handleSend, for a text typed without a file, up to the POST of
\* sendMessage(messageText, 'User'); sendMessage
\* is the function of the render handleSend was made in, and reads that
\* render's currentSessionId:
\*     if (!messageText.trim() || !currentSessionId) return;
handleSend ==
    /\ send.pc \in {"idle", "done"}
    /\ clock < MaxClock
    /\ clock' = clock + 1
    /\ LET closure == currentSessionId
           sessionId == IF currentSessionId = "" THEN new_session_id(clock)
                        ELSE currentSessionId
       IN  /\ currentSessionId' = sessionId
           /\ IF closure = ""
              THEN send' = [NoSend EXCEPT !.pc = "done", !.sessionId = sessionId]
              ELSE send' = [NoSend EXCEPT
                               !.pc = "posting", !.closure = closure,
                               !.sessionId = sessionId,
                               !.userMessage = ChatMessage(closure, clock, "User")]
    /\ UNCHANGED <<pvars, chatTable, activeSessionId, messages, fetching, del, ocrTable,
                   uploads>>

\* the message of send that is on its way
in_flight(sd) == IF sd.reply # NoMessage THEN sd.reply ELSE sd.userMessage

\* /api/add-message: addChatMessage(message) puts the item (201) or fails (500)
add_message ==
    /\ send.pc = "posting"
    /\ \/ /\ chatTable' = PutCommand(chatTable, in_flight(send))
          /\ send' = [send EXCEPT !.pc = "posted"]
       \/ /\ send' = [send EXCEPT !.pc = "refused"]
          /\ UNCHANGED chatTable
    /\ UNCHANGED <<pvars, clock, activeSessionId, currentSessionId, messages, fetching,
                   del, ocrTable, uploads>>

\* sendMessage from the answer on: setMessages(prev => [...prev, message]) on
\* success; handleSend then sets the timer of the reply, or stops
sendMessage_answered ==
    /\ send.pc \in {"posted", "refused"}
    /\ IF send.pc = "posted"
       THEN messages' = Append(messages, in_flight(send))
       ELSE UNCHANGED messages
    /\ send' = [send EXCEPT
                   !.pc = IF send.pc = "posted" /\ send.reply = NoMessage
                          THEN "timer" ELSE "done"]
    /\ UNCHANGED <<pvars, chatTable, clock, activeSessionId, currentSessionId, fetching,
                   del, ocrTable, uploads>>

\* the setTimeout callback: generateAIResponse (which returns a text whatever
\* happens), then sendMessage(aiResponse, 'AI') of the same render
reply_timer ==
    /\ send.pc = "timer"
    /\ clock' = clock + 1
    /\ send' = [send EXCEPT !.pc = "posting",
                            !.reply = ChatMessage(send.closure, clock, "AI")]
    /\ UNCHANGED <<pvars, chatTable, activeSessionId, currentSessionId, messages,
                   fetching, del, ocrTable, uploads>>

\* the sessions the sidebar lists when the page opens hold a message each
ChatInit ==
    /\ IdlePipeline
    /\ chatTable \in SUBSET { ChatMessage(s, 0, "AI") : s \in SessionIds }
    /\ clock = 1
    /\ IdleChat
    /\ del = NoDelete
    /\ ocrTable = {}
    /\ uploads = <<>>

ChatNext ==
    \/ select_session
    \/ fetchMessages
    \/ handleSend
    \/ add_message
    \/ sendMessage_answered
    \/ reply_timer

ChatSpec == ChatInit /\ [][ChatNext]_vars

\* ------------------------------------------------------------ deleteChatSession
\* addChatMessage(message), called by any client while a deletion runs: the
\* message has a MessageId of its own, and a Timestamp that is the clock's or
\* that of a message sent in the same millisecond
addChatMessage ==
    /\ clock < MaxClock
    /\ clock' = clock + 1
    /\ \E s \in SessionIds, t \in {0, 1, clock} :
          \/ chatTable' = PutCommand(chatTable,
                              [ChatMessage(s, t, "User") EXCEPT !.MessageId = clock])
          \/ UNCHANGED chatTable
    /\ UNCHANGED <<pvars, cvars, del, ocrTable, uploads>>

\* deleteChatSession(sessionId) is called; began: the messages stored under
\* the session at that moment
deleteChatSession ==
    /\ del.pc = "idle"
    /\ \E s \in SessionIds :
          del' = [del EXCEPT !.pc = "query", !.sessionId = s,
                             !.began = QueryCommand(chatTable, s)]
    /\ UNCHANGED <<pvars, chatTable, clock, cvars, ocrTable, uploads>>

\* const historyResult = await getChatHistory(sessionId), and the
\* DeleteCommand made for each of its messages
getChatHistory ==
    /\ del.pc = "query"
    /\ \/ del' = [del EXCEPT !.pc = "deleting",
                             !.messages = QueryCommand(chatTable, del.sessionId),
                             !.pending = QueryCommand(chatTable, del.sessionId)]
       \/ del' = [del EXCEPT !.pc = "returned", !.success = FALSE]
    /\ UNCHANGED <<pvars, chatTable, clock, cvars, ocrTable, uploads>>

\* dynamoDb.send(deleteCommand) for one message: the item stored under its
\* key goes; a command that fails rejects Promise.all, the others going on
DeleteCommand ==
    /\ \E m \in del.pending :
          \/ /\ chatTable' = { n \in chatTable : ~ same_key(n, m) }
             /\ del' = [del EXCEPT !.pending = @ \ {m}]
          \/ /\ del.pc = "deleting"
             /\ del' = [del EXCEPT !.pending = @ \ {m}, !.pc = "returned",
                                   !.success = FALSE]
             /\ UNCHANGED chatTable
    /\ UNCHANGED <<pvars, clock, cvars, ocrTable, uploads>>

\* a deletion that answers without waiting for its commands
all_settled_unawaited(pending) == TRUE

\* await Promise.all(deletePromises)
all_settled(pending) == pending = {}

\* return { success: true, ... }
deleteChatSession_return ==
    /\ del.pc = "deleting"
    /\ all_settled(del.pending)
    /\ del' = [del EXCEPT !.pc = "returned", !.success = TRUE]
    /\ UNCHANGED <<pvars, chatTable, clock, cvars, ocrTable, uploads>>

DeleteInit ==
    /\ IdlePipeline
    /\ chatTable \in SUBSET { ChatMessage(s, t, "User") : s \in SessionIds, t \in {0, 1} }
    /\ clock = 2
    /\ IdleChat
    /\ del = NoDelete
    /\ ocrTable = {}
    /\ uploads = <<>>

DeleteNext ==
    \/ addChatMessage
    \/ deleteChatSession
    \/ getChatHistory
    \/ DeleteCommand
    \/ deleteChatSession_return

DeleteSpec == DeleteInit /\ [][DeleteNext]_vars

\* ------------------------------------------------------------ /api/upload-s3
\* the files a form posts: name, its part after the last '.', and type
Files ==
    { [name |-> "report.pdf", extension |-> "pdf", type |-> "application/pdf"],
      [name |-> "report", extension |-> "report", type |-> "application/pdf"],
      [name |-> "notes.txt", extension |-> "txt", type |-> "text/plain"] }

NoItem == [id |-> -1, fileName |-> "", s3Key |-> -1, extractedText |-> <<>>,
           documentType |-> ""]

NoUpload == [pc |-> "idle", file |-> "", key |-> -1,
             documentResult |-> [success |-> FALSE, extractedText |-> <<>>,
                                 documentType |-> ""],
             response |-> <<>>]

\* processDocument(fileUrl, fileName): the placeholder text names the kind of
\* document, the file and its URL (a key stands for the URL made from it)
processDocument(key, fileName, extension) ==
    IF extension \in {"jpg", "jpeg", "png", "gif", "pdf"}
    THEN LET documentType == IF extension = "pdf" THEN "pdf" ELSE "image"
         IN  [success |-> TRUE, extractedText |-> <<documentType, fileName, key>>,
              documentType |-> documentType]
    ELSE [success |-> FALSE, extractedText |-> <<>>, documentType |-> ""]

\* an item of an upload made before the ones followed here
EarlierItem ==
    [id |-> 0, fileName |-> "earlier.pdf", s3Key |-> 0,
     extractedText |-> <<"pdf", "earlier.pdf", 0>>, documentType |-> "pdf"]

\* POST up to s3Client.send(command): the checks of the file, and the key
\* made from a fresh uuid (u stands for it)
upload_POST(u) ==
    /\ uploads[u].pc = "idle"
    /\ \E file \in Files :
          IF file.type \notin {"application/pdf", "image/jpeg", "image/png", "image/jpg",
                               "image/gif"}
          THEN uploads' = [uploads EXCEPT
                              ![u].pc = "responded", ![u].file = file,
                              ![u].response = [status |-> 400, success |-> FALSE]]
          ELSE uploads' = [uploads EXCEPT
                              ![u].pc = "put_object", ![u].file = file, ![u].key = u]
    /\ UNCHANGED <<pvars, chatTable, clock, cvars, del, ocrTable>>

\* await s3Client.send(command), then processDocument
PutObjectCommand(u) ==
    /\ uploads[u].pc = "put_object"
    /\ \/ uploads' = [uploads EXCEPT
                         ![u].pc = "save",
                         ![u].documentResult =
                             processDocument(uploads[u].key, uploads[u].file.name,
                                             uploads[u].file.extension)]
       \/ uploads' = [uploads EXCEPT
                         ![u].pc = "responded",
                         ![u].response = [status |-> 500, success |-> FALSE]]
    /\ UNCHANGED <<pvars, chatTable, clock, cvars, del, ocrTable>>

\* if (documentResult.success && documentResult.extractedText)
\*     await saveOCRResult({...}), which reports a failed put without raising
saveOCRResult(u) ==
    /\ uploads[u].pc = "save"
    /\ uploads' = [uploads EXCEPT ![u].pc = "scan"]
    /\ IF uploads[u].documentResult.success
       THEN \/ ocrTable' = ocrTable \cup
                  { [id |-> u, fileName |-> uploads[u].file.name, s3Key |-> uploads[u].key,
                     extractedText |-> uploads[u].documentResult.extractedText,
                     documentType |-> uploads[u].documentResult.documentType] }
            \/ UNCHANGED ocrTable
       ELSE UNCHANGED ocrTable
    /\ UNCHANGED <<pvars, chatTable, clock, cvars, del>>

\* the response made from latestOCRItem
upload_response(key, latestOCRItem) ==
    [status |-> 200, success |-> TRUE, s3Key |-> key,
     documentProcessing |->
         IF latestOCRItem # NoItem
         THEN [success |-> TRUE, extractedText |-> latestOCRItem.extractedText,
               documentType |-> latestOCRItem.documentType]
         ELSE [success |-> FALSE, extractedText |-> <<>>, documentType |-> ""]]

\* ScanCommand with Limit: 1 and no filter: the first item of the table in
\* the table's own order, whichever that is; none when the table is empty or
\* the scan fails.  Then the response.
ScanCommand(u) ==
    /\ uploads[u].pc = "scan"
    /\ \E latestOCRItem \in ocrTable \cup {NoItem} :
          uploads' = [uploads EXCEPT
                         ![u].pc = "responded",
                         ![u].response = upload_response(uploads[u].key, latestOCRItem)]
    /\ UNCHANGED <<pvars, chatTable, clock, cvars, del, ocrTable>>

UploadInit ==
    /\ IdlePipeline
    /\ chatTable = {}
    /\ clock = 0
    /\ IdleChat
    /\ del = NoDelete
    /\ ocrTable \in {{}, {EarlierItem}}
    /\ uploads = [u \in 1..MaxUploads |-> NoUpload]

UploadNext ==
    \E u \in 1..MaxUploads :
        \/ upload_POST(u)
        \/ PutObjectCommand(u)
        \/ saveOCRResult(u)
        \/ ScanCommand(u)

UploadSpec == UploadInit /\ [][UploadNext]_vars

\* ------------------------------------------------------------------ claims
MatchCount(v, records) ==
    Cardinality({ i \in 1..Len(records) : key_matches(v, records[i]) })

WritesOf(id, kind) ==
    { j \in 1..Len(writes) : writes[j].documentId = id /\ writes[j].kind = kind }

RunOver == pc \in {"completed", "failed", "raised"}

\* every tier invoked so far raised or produced no usable line
AllTiersEmpty ==
    /\ tried # <<>>
    /\ \A i \in 1..Len(tried) : tried[i].raised \/ tried[i].lines = 0

\* every tier invoked so far raised or extracted nothing at all
AllTiersBare ==
    /\ AllTiersEmpty
    /\ \A i \in 1..Len(tried) : ~ tried[i].blank

\* C1: once the handler has returned from a batch in which a document run
\* took place, every matching record of the batch has been run to its own
\* terminal outcome, whatever happened to its siblings.
C1_SiblingsProcessed ==
    (hpc = "returned" /\ has_Records(event) /\ ended # <<>>)
        => Len(ended) = MatchCount(variant, event.Records)

\* C2: a document run that ended in failure attempted exactly one write of
\* an error record before control returned to its caller.
C2_OneErrorRecordWrite ==
    \A i \in 1..Len(ended) :
        ended[i].status # "completed"
            => Cardinality(WritesOf(ended[i].documentId, "error")) = 1

\* C3: the temporary file a run created is gone once the run has ended,
\* whatever the outcome and also when the download into it raised.
C3_TempFileReleased ==
    \A i \in 1..Len(ended) : ended[i].created \notin disk

\* C4: when the chain returns, the tiers were invoked in priority order, each
\* tier after the first only because its predecessor raised or produced no
\* usable line, a tier that raised or produced nothing was followed by the
\* next one, and the outcome is that of the first tier with a usable line.
C4_FirstSuccessWins ==
    (pc = "classify" /\ variant \in {"enhanced", "fixed", "smart"})
        => LET last == tried[Len(tried)]
               tiers == IF variant = "fixed" THEN 2 ELSE 3
           IN  /\ \A i \in 1..Len(tried) : tried[i].tier = i
               /\ \A i \in 1..(Len(tried) - 1) : tried[i].raised \/ tried[i].lines = 0
               /\ (last.raised \/ last.lines = 0) => Len(tried) = tiers
               /\ last.lines > 0 => /\ doc.outcome.tier = Len(tried)
                                    /\ doc.outcome.lines = last.lines

\* C5 as stated: when every tier raised or produced no usable line, the
\* chain returns the placeholder "no extractable text" with one page and
\* zero lines.
C5_PlaceholderAsStated ==
    (variant \in {"enhanced", "fixed"} /\ pc = "classify" /\ AllTiersEmpty)
        => /\ doc.outcome.text = <<"no extractable text">>
           /\ doc.outcome.pages = 1
           /\ doc.outcome.lines = 0

\* C5 as amended: when every tier of extract_text_multi_method or of
\* extract_text_robust raised or extracted nothing at all, the chain has
\* returned one of the function's own fixed placeholder outcomes, with one
\* page and at most one line, and the run goes on.
C5_PlaceholderOfTheCode ==
    (variant \in {"enhanced", "fixed"} /\ pc # "extract" /\ AllTiersBare)
        => /\ doc.outcome.pages = 1
           /\ doc.outcome.tier = 0
           /\ "SCORING" \in { phases[i] : i \in 1..Len(phases) }
           /\ IF variant = "enhanced"
              THEN IF tried[3].raised
                   THEN /\ doc.outcome.text = <<"PDF processing failed">>
                        /\ doc.outcome.confidence = 0
                        /\ doc.outcome.lines = 0
                   ELSE /\ doc.outcome.text =
                               <<"Text extraction completed - limited content available">>
                        /\ doc.outcome.confidence = 50
                        /\ doc.outcome.lines = 1
              ELSE IF tried[2].raised
                   THEN /\ doc.outcome.text =
                               <<"PDF processing completed with limited success">>
                        /\ doc.outcome.confidence = 40
                        /\ doc.outcome.lines = 1
                   ELSE /\ doc.outcome.text =
                               <<"Enhanced text extraction completed - limited readable content">>
                        /\ doc.outcome.confidence = 50
                        /\ doc.outcome.lines = 1

\* C5 witness: all three tiers of extract_text_multi_method came up empty,
\* the last without raising, and the run is about to classify the placeholder.
C5_Witness ==
    /\ variant = "enhanced"
    /\ pc = "classify"
    /\ AllTiersBare
    /\ Len(tried) = 3
    /\ ~ tried[3].raised
    /\ doc.outcome.lines = 1

\* C6: a run whose write of the success record failed ended by raising to
\* its caller, and was not reported as completed.
C6_SuccessWriteFailureSurfaces ==
    \A i \in 1..Len(ended) :
        (\E j \in WritesOf(ended[i].documentId, "success") : ~ writes[j].ok)
            => ended[i].status = "raised"

\* C7: no documentId is written twice: an item, once stored, is never
\* replaced.
C7_WrittenOnce ==
    \A i, j \in 1..Len(writes) :
        (i < j /\ writes[i].ok /\ writes[j].ok)
            => writes[i].documentId # writes[j].documentId

\* C8: no exception leaves lambda_handler, and what it returns carries the
\* status code 200, 400 or 500.
C8_HandlerAlwaysResponds ==
    /\ ~ escaped
    /\ hpc = "returned" => response.statusCode \in {200, 400, 500}

\* C8 witness: a document run raised, and the handler answered with 500.
C8_Witness ==
    /\ hpc = "returned"
    /\ response.statusCode = 500
    /\ ended # <<>>
    /\ ended[Len(ended)].status = "raised"

PipelineStates ==
    <<"FETCHING", "EXTRACTING", "SCORING", "CLASSIFYING", "PERSISTING", "DONE">>

\* C9: the states a run has entered are an initial stretch of FETCHING ..
\* DONE, possibly followed by FAILED entered from a non-terminal state; a run
\* that reached DONE made its one write, and no run writes two error records.
C9_StateOrder ==
    /\ \E k \in 0..Len(PipelineStates) :
          \/ phases = SubSeq(PipelineStates, 1, k)
          \/ /\ k \in 1..(Len(PipelineStates) - 1)
             /\ phases = Append(SubSeq(PipelineStates, 1, k), "FAILED")
    /\ \A i \in 1..Len(phases) :
          phases[i] = "DONE"
              => Cardinality({ j \in 1..Len(writes) :
                                  writes[j].documentId = doc.documentId }) = 1
    /\ Cardinality(WritesOf(doc.documentId, "error")) <= 1

\* C10: in the enhanced deployment, a run whose download succeeded, whose
\* tiers all raised or produced nothing and whose writes all succeeded ended
\* completed, and its stored item is not a failure record.
C10_PlaceholderPersisted ==
    (/\ variant = "enhanced"
     /\ RunOver
     /\ doc.temp_file_path # 0
     /\ AllTiersEmpty
     /\ \A j \in 1..Len(writes) : writes[j].ok)
        => /\ pc = "completed"
           /\ doc.documentId \in DOMAIN table
           /\ ~ is_failed_record(table[doc.documentId])

\* C11: whatever tier or placeholder path produced the outcome that
\* extract_text_multi_method returned, its line count is not negative and
\* equals the number of non-empty lines of its text.
C11_LinesMatchText ==
    (variant = "enhanced" /\ pc = "classify")
        => /\ doc.outcome.lines >= 0
           /\ doc.outcome.lines = Len(stripped_lines(doc.outcome.text))

\* C14: the confidence of an outcome is never negative, and it is zero only
\* when the outcome's text is empty.
C14_ZeroOnlyWhenEmpty ==
    pc = "classify"
        => /\ doc.outcome.confidence >= 0
           /\ doc.outcome.text # <<>> => doc.outcome.confidence > 0

\* C16: cleaning a cleaned text changes nothing: for every text x,
\* clean_pdf_text(clean_pdf_text(x)) = clean_pdf_text(x), and likewise for
\* clean_pdf_text_simple.
C16_CleanIsIdempotent ==
    /\ (fn = "clean_pdf_text" /\ ret.done) => clean_pdf_text(ret.value) = ret.value
    /\ (fn = "clean_pdf_text_simple" /\ ret.done)
           => clean_pdf_text_simple(ret.value) = ret.value

\* C16 witness: clean_pdf_text returned a text that is neither empty nor its
\* argument, from an argument with a run of white space and a ligature.
C16_Witness ==
    /\ fn = "clean_pdf_text"
    /\ ret.done
    /\ ret.value # <<>>
    /\ ret.value # arg
    /\ \E i \in 1..(Len(arg) - 1) : isspace(arg[i]) /\ isspace(arg[i + 1])
    /\ \E i \in 1..Len(arg) : arg[i] = LigatureFi

\* C17: from a page text of several lines, clean_pdf_text returns the lines
\* of the text, in order, without those that are purely numeric, shorter
\* than 3 characters or less than 0.3 alphabetic, and with every other line.
C17_LinesFiltered ==
    (fn = "clean_pdf_text" /\ ret.done /\ Len(split_lines(arg)) > 1)
        => ret.value =
              join_lines(SelectSeq(
                  stripped([i \in 1..Len(split_lines(arg)) |->
                               replace_ligatures(collapse_whitespace(split_lines(arg)[i]))]),
                  keeps_line))

ConfidenceCalls ==
    {"calculate_text_confidence", "process_pdf_smart", "extract_text_robust",
     "calculate_confidence"}

\* C12: a confidence produced by an engine tier (calculate_text_confidence
\* scores the text of tier 1 and of tier 2) is at most 0.95, and one produced
\* by the raw heuristic fallback of extract_text_robust is at most 0.6.
C12_TierCeiling ==
    ret.done
        => /\ fn = "calculate_text_confidence" => ret.value <= 95
           /\ fn = "extract_text_robust" => ret.value <= 60

\* C13: every confidence a chain hands to the record lies between 0 and 0.99.
C13_ConfidenceInRange ==
    (ret.done /\ fn \in ConfidenceCalls) => (ret.value >= 0 /\ ret.value <= 99)

\* C15: calculate_text_confidence never lowers its score when the keyword
\* hits, the non-empty lines or the complete sentences grow by one while the
\* other two stay as they are.
C15_ScoreMonotone ==
    (fn = "calculate_text_confidence" /\ ret.done)
        => /\ text_confidence(arg.hits + 1, arg.nlines, arg.sentences) >= ret.value
           /\ text_confidence(arg.hits, arg.nlines + 1, arg.sentences) >= ret.value
           /\ text_confidence(arg.hits, arg.nlines, arg.sentences + 1) >= ret.value

\* C15 witness: a scored text at the keyword bonus's limit and one line short
\* of a structure bonus: one more hit leaves the score, one more line raises it.
C15_Witness ==
    /\ fn = "calculate_text_confidence"
    /\ ret.done
    /\ arg.hits = 4
    /\ arg.nlines = 20
    /\ text_confidence(arg.hits + 1, arg.nlines, arg.sentences) = ret.value
    /\ text_confidence(arg.hits, arg.nlines + 1, arg.sentences) > ret.value

\* the tuple the stated rule selects: the highest
\* baseWeight x (matchedKeywords / |keywordSet|), the earliest of several
highest_score(list, text) ==
    list[CHOOSE i \in 1..Len(list) :
            /\ \A j \in 1..Len(list) : confidence_of(list[j], text) <= confidence_of(list[i], text)
            /\ \A j \in 1..(i - 1) : confidence_of(list[j], text) < confidence_of(list[i], text)
        ].doc_type

some_match(list, text) == \E i \in 1..Len(list) : matches(list[i].keywords, text) > 0

\* C18: for a text in which a keyword of some tuple occurs, the classifier
\* returns the label of the tuple with the highest score, and of the
\* earliest such tuple when several share that score.
C18_HighestScoreWins ==
    /\ (/\ fn = "classify_medical_document_enhanced"
         /\ ret.done
         /\ some_match(classifications, text_lower(arg)))
           => ret.value = highest_score(classifications, text_lower(arg))
    /\ (/\ fn = "classify_medical_document_enhanced_fixed"
         /\ ret.done
         /\ some_match(classifications_fixed, text_lower(arg)))
           => ret.value = highest_score(classifications_fixed, text_lower(arg))

\* C19: for every text, the empty one included, in which no keyword of the
\* classifier occurs, the classifier returns the label "document".
C19_FallbackLabel ==
    /\ (/\ fn = "classify_medical_document_enhanced"
         /\ ret.done
         /\ ~ some_match(classifications, text_lower(arg)))
           => ret.value = "document"
    /\ (/\ fn = "classify_document"
         /\ ret.done
         /\ \A k \in {"lab", "result", "prescription", "rx", "radiology", "imaging"} :
                ~ occurs(<<k>>, text_lower(arg)))
           => ret.value = "document"

category_index(category) ==
    CHOOSE c \in 1..Len(medical_keywords) : medical_keywords[c].category = category

\* C20: extract_medical_keywords returns exactly one match for every
\* category and keyword of that category that occurs in the lower-cased text
\* (a keyword of two categories twice), none for any other, and the matches
\* follow the order of the categories, whatever the order in the text.
C20_OneMatchPerPair ==
    (fn = "extract_medical_keywords" /\ ret.done)
        => /\ \A c \in 1..Len(medical_keywords) :
                 \A k \in 1..Len(medical_keywords[c].keywords) :
                     Cardinality({ j \in 1..Len(ret.value) :
                         /\ ret.value[j].category = medical_keywords[c].category
                         /\ ret.value[j].keyword = medical_keywords[c].keywords[k] })
                       = IF occurs(medical_keywords[c].keywords[k], text_lower(arg))
                         THEN 1 ELSE 0
           /\ \A i, j \in 1..Len(ret.value) :
                 i < j => category_index(ret.value[i].category)
                              <= category_index(ret.value[j].category)

\* C20 witness: for "fever blood pressure" the extractor returned the two
\* matches of 'blood pressure', under tests and under measurements, and then
\* 'fever', which comes first in the text.
C20_Witness ==
    /\ fn = "extract_medical_keywords"
    /\ ret.done
    /\ Len(arg) > 1
    /\ arg[1] = "fever"
    /\ Len(ret.value) = 3
    /\ ret.value[1].category = "tests"
    /\ ret.value[2].category = "measurements"
    /\ ret.value[1].keyword = ret.value[2].keyword
    /\ ret.value[3].keyword = <<"fever">>

\* the trigger records a filter on the prefix and on the suffixes lets through
Accepted(records, suffixes) ==
    { i \in 1..Len(records) :
         records[i].dir = "medpal-uploads/" /\ lower(records[i].ext) \in suffixes }

\* C21: given trigger records, the enhanced deployment fetches, creates
\* files and writes records only for keys with the prefix that end with
\* '.pdf' in any case of the letters, and its response carries, as
\* processed_files, the number of those records.
C21_OnlyPdfKeysRun ==
    (variant = "enhanced" /\ has_Records(event))
        => /\ doc.key # NoKey
                 => doc.key.dir = "medpal-uploads/" /\ lower(doc.key.ext) = ".pdf"
           /\ \A id \in DOMAIN table :
                 /\ table[id].s3Key.dir = "medpal-uploads/"
                 /\ lower(table[id].s3Key.ext) = ".pdf"
           /\ nextId - 1 <= Cardinality(Accepted(event.Records, {".pdf"}))
           /\ Len(writes) > 0 => nextId > 1
           /\ disk \subseteq 1..(nextId - 1)
           /\ hpc = "returned"
                 => response.processed_files
                        = Cardinality(Accepted(event.Records, {".pdf"}))

\* C22: once the handler has returned, its response holds, for every run
\* that failed, a summary with the run's documentId and error message and,
\* for every run that succeeded, a summary with its documentId.
C22_SummaryPerDocument ==
    hpc = "returned"
        => \A i \in 1..Len(ended) :
              /\ response.statusCode = 200
              /\ \E k \in 1..Len(results) :
                    /\ results[k].documentId = ended[i].documentId
                    /\ ended[i].status # "completed" => results[k].error = ended[i].e

\* C25: in the pdfplumber deployment, once the library is loaded, an event
\* with a 'Records' list is answered with 200 and processed_files equal to
\* the number of its matching records, each of which was run.
C25_RecordsProcessed ==
    (/\ variant = "pdfplumber"
     /\ has_Records(event)
     /\ hpc = "returned"
     /\ response.error # "ImportError")
        => /\ response.statusCode = 200
           /\ response.processed_files = Cardinality(Accepted(event.Records, {".pdf"}))
           /\ Len(ended) = Cardinality(Accepted(event.Records, {".pdf"}))

\* the fields of a record of a successful run
SuccessFields == {"extractedText", "documentType", "confidence", "totalLines", "totalPages"}

\* C23: every stored record without processingStatus = 'failed' carries all
\* the success fields, each with the value its run computed; the put of a
\* success record happens only in a run that has gone through extraction,
\* scoring and classification, in that order; and a run that has not reached
\* PERSISTING has put no success record.
C23_NoPartialRecord ==
    /\ \A id \in DOMAIN table :
          ~ is_failed_record(table[id])
              => /\ SuccessFields \subseteq DOMAIN table[id]
                 /\ table[id].documentType # ""
                 /\ table[id].confidence >= 0
                 /\ table[id].totalLines >= 0
                 /\ table[id].totalPages >= 1
    /\ \A k \in 1..Len(writes) :
          (writes[k].kind = "success" /\ writes[k].documentId = doc.documentId)
              => SubSeq(phases, 1, 5) = SubSeq(PipelineStates, 1, 5)
    /\ (\A i \in 1..Len(phases) : phases[i] # "PERSISTING")
          => /\ \A k \in 1..Len(writes) :
                   writes[k].documentId = doc.documentId => writes[k].kind # "success"
             /\ doc.documentId \in DOMAIN table => is_failed_record(table[doc.documentId])

\* a run has completed and its success record is stored
C23_Witness ==
    /\ pc = "completed"
    /\ doc.documentId \in DOMAIN table
    /\ ~ is_failed_record(table[doc.documentId])
    /\ table[doc.documentId].documentType \in {"document", "medical_document", "unknown"}

\* C24: when Method 1 of extract_text_multi_method is accepted for a page
\* with a table, the text it returns holds every row of the table that has
\* text as a line of its cells joined by ' | ', and the confidence it returns
\* is at least 0.85.
C24_TableTierScore ==
    (/\ fn = "extract_text_multi_method"
     /\ ret.done
     /\ ret.value # NoOutcome
     /\ table_lines(arg.table) # <<>>)
        => /\ \A r \in 1..Len(arg.table) :
                 row_text(arg.table[r]) # ""
                     => \E i \in 1..Len(ret.value.text) :
                           ret.value.text[i] = row_text(arg.table[r])
           /\ ret.value.confidence >= 85

\* the items of the scan that belong to session id
MessagesOf(items, id) == { i \in 1..Len(items) : items[i].ChatSessionId = id }

\* C30: whatever the order of the scanned items, getChatSessions returns one
\* entry for each ChatSessionId among them and no other entry; the entry's
\* messageCount is the number of the session's items, its lastMessage and
\* timestamp are those of the session's item with the greatest Timestamp, and
\* its hasSensitiveData is true exactly when an item of the session is
\* flagged IsSensitive.
C30_SessionSummaries ==
    (fn = "getChatSessions" /\ ret.done)
        => LET sessions == ret.value
           IN  /\ \A i, j \in 1..Len(sessions) :
                     i # j => sessions[i].sessionId # sessions[j].sessionId
               /\ { sessions[i].sessionId : i \in 1..Len(sessions) }
                      = { arg[i].ChatSessionId : i \in 1..Len(arg) }
               /\ \A k \in 1..Len(sessions) :
                     LET of == MessagesOf(arg, sessions[k].sessionId)
                         last == CHOOSE i \in of :
                                    \A j \in of : getTime(arg[i].Timestamp)
                                                     >= getTime(arg[j].Timestamp)
                     IN  /\ sessions[k].messageCount = Cardinality(of)
                         /\ sessions[k].lastMessage = arg[last].Message
                         /\ sessions[k].timestamp = arg[last].Timestamp
                         /\ sessions[k].hasSensitiveData
                                <=> \E i \in of : arg[i].IsSensitive

\* a session's newest item was scanned first, a sensitive older one later
C30_Witness ==
    /\ fn = "getChatSessions"
    /\ ret.done
    /\ Len(arg) = 3
    /\ arg[1].ChatSessionId = arg[3].ChatSessionId
    /\ arg[2].ChatSessionId # arg[1].ChatSessionId
    /\ getTime(arg[1].Timestamp) > getTime(arg[3].Timestamp)
    /\ arg[3].IsSensitive /\ ~ arg[1].IsSensitive
    /\ Len(ret.value) = 2

\* C26: a handleSend that found no session open has made a new session id
\* and has sent the user's message to /api/add-message under that id.
C26_FirstMessagePosted ==
    (send.pc # "idle" /\ send.closure = "")
        => /\ send.sessionId # ""
           /\ currentSessionId = send.sessionId
           /\ send.userMessage.ChatSessionId = send.sessionId
           /\ send.userMessage.Sender = "User"

\* C28: the reply to a message sent in a session is stored under that
\* session, and when it is appended to the list shown, no other session has
\* been selected.
C28_ReplyStaysInSession ==
    [][(send.pc = "posted" /\ send.reply # NoMessage /\ send'.pc = "done")
          => /\ send.reply.ChatSessionId = send.userMessage.ChatSessionId
             /\ send.reply \in chatTable
             /\ messages' = Append(messages, send.reply)
             /\ currentSessionId' # "" => currentSessionId' = send.reply.ChatSessionId]_vars

C27_OwnOcrResult ==
    \A u \in DOMAIN uploads :
        (/\ uploads[u].pc = "responded"
         /\ uploads[u].response.success
         /\ uploads[u].response.documentProcessing.success)
            => \E item \in ocrTable :
                  /\ item.s3Key = uploads[u].response.s3Key
                  /\ item.extractedText
                         = uploads[u].response.documentProcessing.extractedText

====
